---------------------------- MODULE Spec2Model ----------------------------
(***************************************************************************)
(* KuduScanBatch::RowPtr (src/kudu/client/scan_batch.cc): a typed,         *)
(* non-owning view of one row of a scan batch.                             *)
(*                                                                         *)
(* Memory is modelled at the byte level.  direct_data is the batch buffer  *)
(* (a sequence of bytes 0..255); a row is byte_size bytes of fixed-width    *)
(* cells followed by the null bitmap; row_data is the offset of the        *)
(* current row in direct_data.  A destination is the sequence of the      *)
(* bytes of the caller's object.  Integers are little-endian two's         *)
(* complement.  Strings produced by the renderers are sequences of tokens. *)
(*                                                                         *)
(* Column indexes passed by index are always valid indexes of the schema:  *)
(* schema_->column(i) with i out of range is outside the contract.         *)
(***************************************************************************)
EXTENDS Integers, Sequences, FiniteSets

VARIABLES
  schema,       \* schema_: sequence of column descriptors
  direct_data,  \* KuduScanBatch::Data::direct_data_: the rows' bytes
  row_data,     \* row_data_: offset of the current row in direct_data
  val,          \* the bytes of the caller's destination object
  ret,          \* the caller's std::string handed to ToCSVRowString
  last,         \* the last call made and what it returned
  aborted       \* TRUE once a CHECK has failed and the process is gone

vars == <<schema, direct_data, row_data, val, ret, last, aborted>>

-----------------------------------------------------------------------------
(* Bounds *)

\* Largest number of columns of the schemas explored.
MaxCols == 3

\* Number of distinct value patterns stored in the rows of a batch.
NumVals == 2

-----------------------------------------------------------------------------
(* Data types *)

\* Get<T>(const Slice&, ...) is instantiated for these T.
TypesByName ==
  {"bool", "int8", "int16", "int32", "int64", "int128", "unixtime_micros",
   "date", "float", "double", "string", "binary", "varchar"}

\* Get<T>(int, ...) is instantiated for these T (is_deleted through IsDeleted).
TypesByIdx ==
  TypesByName \cup {"decimal32", "decimal64", "decimal128"}

\* sizeof(typename T::cpp_type): bool and int8_t 1, int16_t 2, int32_t and
\* float 4, int64_t and double 8, int128_t 16, Slice (pointer, size) 16.
SizeOf(T) ==
  CASE T \in {"bool", "int8", "is_deleted"} -> 1
    [] T = "int16" -> 2
    [] T \in {"int32", "date", "float", "decimal32"} -> 4
    [] T \in {"int64", "unixtime_micros", "double", "decimal64"} -> 8
    [] OTHER -> 16

-----------------------------------------------------------------------------
(* Bytes *)

RECURSIVE Encode(_, _)
\* The n little-endian two's complement bytes of the integer v.
Encode(v, n) ==
  IF n = 0 THEN <<>>
  ELSE <<v % 256>> \o Encode((v - (v % 256)) \div 256, n - 1)

RECURSIVE DecodeSigned(_)
\* The integer a little-endian two's complement byte sequence denotes.
DecodeSigned(b) ==
  IF Len(b) = 1 THEN (IF b[1] >= 128 THEN b[1] - 256 ELSE b[1])
  ELSE b[1] + 256 * DecodeSigned(Tail(b))

RECURSIVE Pow2(_)
Pow2(n) == IF n = 0 THEN 1 ELSE 2 * Pow2(n - 1)

RECURSIVE Repeat(_, _)
Repeat(x, n) == IF n = 0 THEN <<>> ELSE <<x>> \o Repeat(x, n - 1)

RECURSIVE Concat(_, _, _)
\* f[lo] \o f[lo+1] \o ... \o f[hi] for a sequence-valued f.
Concat(f, lo, hi) == IF lo > hi THEN <<>> ELSE f[lo] \o Concat(f, lo + 1, hi)

-----------------------------------------------------------------------------
(* Schema: the collaborator the row view reads its layout from *)

Col(n, t, nullable) == [name |-> n, type |-> t, is_nullable |-> nullable]

\* The schemas explored, by number of columns: the empty schema, the
\* {id, name} schema of the debug-string example, the three decimal widths,
\* a projection with the IS_DELETED virtual column, and a four-column one.
AllSchemas ==
  { <<>>,
    <<Col("id", "int32", FALSE), Col("name", "string", TRUE)>>,
    <<Col("d32", "decimal32", TRUE), Col("d64", "decimal64", FALSE),
      Col("d128", "decimal128", TRUE)>>,
    <<Col("ts", "unixtime_micros", FALSE), Col("day", "date", TRUE),
      Col("is_deleted", "is_deleted", TRUE)>>,
    <<Col("b", "bool", TRUE), Col("i8", "int8", FALSE),
      Col("f", "float", TRUE), Col("i64", "int64", FALSE)>> }

Schemas == {s \in AllSchemas : Len(s) <= MaxCols}

\* A column name no schema has.
NoSuchName == "nosuch"

\* Schema::num_columns()
num_columns == Len(schema)

\* Schema::column(i), 0-based.
column(col_idx) == schema[col_idx + 1]

RECURSIVE OffsetIn(_, _)
OffsetIn(s, col_idx) ==
  IF col_idx = 0 THEN 0
  ELSE OffsetIn(s, col_idx - 1) + SizeOf(s[col_idx].type)

\* Schema::column_offset(i): the cells are laid out in column order.
column_offset(col_idx) == OffsetIn(schema, col_idx)

\* Schema::byte_size(): the size of the fixed-width region of a row.
byte_size == OffsetIn(schema, Len(schema))

\* Schema::kColumnNotFound
kColumnNotFound == -1

\* Schema::first_is_deleted_virtual_column_idx()
first_is_deleted_virtual_column_idx ==
  LET D == {i \in 0..(num_columns - 1) : column(i).type = "is_deleted"}
  IN IF D = {} THEN kColumnNotFound
     ELSE CHOOSE i \in D : \A j \in D : i <= j

-----------------------------------------------------------------------------
(* Status *)

StatusOK == [code |-> "OK", msg |-> <<>>]

NotFound(m) == [code |-> "NotFound", msg |-> m]

InvalidArgument(m) == [code |-> "InvalidArgument", msg |-> m]

\* Schema::FindColumn(name, &idx): the index of the column of that name.
FindColumn(col_name) ==
  LET F == {i \in 0..(num_columns - 1) : column(i).name = col_name}
  IN IF F = {}
     THEN [status |-> NotFound(<<"No such column", col_name>>),
           col_idx |-> kColumnNotFound]
     ELSE [status |-> StatusOK, col_idx |-> CHOOSE i \in F : TRUE]

\* BadTypeStatus built with the wrong Status constructor.
BadTypeStatus_NotFound(provided_type_name, col) ==
  NotFound(<<"invalid type $0 provided for column '$1' (expected $2)",
             provided_type_name, col.name, col.type>>)

BadTypeStatus(provided_type_name, col) ==
  InvalidArgument(<<"invalid type $0 provided for column '$1' (expected $2)",
                    provided_type_name, col.name, col.type>>)

-----------------------------------------------------------------------------
(* The batch buffer *)

HasNullables(s) == \E i \in 1..Len(s) : s[i].is_nullable

\* The null bitmap of a row: present when the schema has a nullable column,
\* one bit per column of the schema.
BitmapBytes(s) == IF HasNullables(s) THEN (Len(s) + 7) \div 8 ELSE 0

RowStride(s) == OffsetIn(s, Len(s)) + BitmapBytes(s)

\* The integer stored in column i (1-based) of a row of value pattern k.
CellValue(k, i, t) ==
  IF t \in {"bool", "is_deleted"} THEN (k + i) % 2
  ELSE IF k % 2 = 1 THEN 0 - (7 + i + k) ELSE 42 + i + k

\* The bytes of the cell: a Slice is a pointer followed by a size.
CellBytes(k, i, t) ==
  IF t \in {"string", "binary", "varchar"}
  THEN Encode(4096 + 16 * i + k, 8) \o Encode(2 + i, 8)
  ELSE Encode(CellValue(k, i, t), SizeOf(t))

\* One row: its cells, then its null bitmap with the bits of bm.
RowBytes(s, k, bm) ==
  Concat([i \in 1..Len(s) |-> CellBytes(k, i, s[i].type)], 1, Len(s))
    \o Encode(bm, BitmapBytes(s))

BitmapsOf(s) == IF HasNullables(s) THEN Pow2(Len(s)) ELSE 1

\* KuduScanBatch::NumRows(): every value pattern with every bitmap.
NumRowsOf(s) == NumVals * BitmapsOf(s)

BatchOf(s) ==
  Concat([r \in 1..NumRowsOf(s) |->
            RowBytes(s, ((r - 1) \div BitmapsOf(s)) + 1, (r - 1) % BitmapsOf(s))],
         1, NumRowsOf(s))

\* memcpy(dst, direct_data + at, n): the n bytes at offset at.
memcpy(at, n) == SubSeq(direct_data, at + 1, at + n)

\* BitmapTest(bitmap, idx): bit idx of the bitmap starting at offset at.
BitmapTest(at, idx) ==
  (direct_data[at + (idx \div 8) + 1] \div Pow2(idx % 8)) % 2 = 1

-----------------------------------------------------------------------------
(* KuduScanBatch::RowPtr *)

\* IsNull without the test of is_nullable().
IsNull_NoNullableCheck(col_idx) ==
  BitmapTest(row_data + byte_size, col_idx)

\* IsNull testing the bit numbered by the nullable columns before col_idx.
IsNull_ByRank(col_idx) ==
  IF ~column(col_idx).is_nullable THEN FALSE
  ELSE BitmapTest(row_data + byte_size,
                  Cardinality({j \in 0..(col_idx - 1) : column(j).is_nullable}))

\* bool IsNull(int col_idx)
IsNull(col_idx) ==
  IF ~column(col_idx).is_nullable THEN FALSE
  ELSE BitmapTest(row_data + byte_size, col_idx)

\* const void* cell(int col_idx): the address of the cell in the buffer.
cell(col_idx) == row_data + column_offset(col_idx)

\* Get with the null check made before the type check.
Get_NullCheckFirst(T, col_idx, dst) ==
  LET col == column(col_idx) IN
  IF col.is_nullable /\ BitmapTest(row_data + byte_size, col_idx)
  THEN [status |-> NotFound(<<"column is NULL">>), val |-> dst]
  ELSE IF col.type # T
  THEN [status |-> BadTypeStatus(T, col), val |-> dst]
  ELSE [status |-> StatusOK,
        val |-> memcpy(row_data + column_offset(col_idx), SizeOf(T))]

\* Get without the null check.
Get_NoNullCheck(T, col_idx, dst) ==
  LET col == column(col_idx) IN
  IF col.type # T
  THEN [status |-> BadTypeStatus(T, col), val |-> dst]
  ELSE [status |-> StatusOK,
        val |-> memcpy(row_data + column_offset(col_idx), SizeOf(T))]

\* template<typename T> Status Get(int col_idx, typename T::cpp_type* val).
\* dst is the destination's content before the call; the result is the
\* returned Status and the destination's content after it.
Get(T, col_idx, dst) ==
  LET col == column(col_idx) IN
  IF col.type # T
  THEN [status |-> BadTypeStatus(T, col), val |-> dst]
  ELSE IF col.is_nullable /\ IsNull(col_idx)
  THEN [status |-> NotFound(<<"column is NULL">>), val |-> dst]
  ELSE [status |-> StatusOK,
        val |-> memcpy(row_data + column_offset(col_idx), SizeOf(T))]

\* template<typename T> Status Get(const Slice& col_name, ...)
GetByName(T, col_name, dst) ==
  LET f == FindColumn(col_name) IN
  IF f.status.code # "OK" THEN [status |-> f.status, val |-> dst]
  ELSE Get(T, f.col_idx, dst)

\* IsDeleted taking a missing virtual column for a row that is not deleted.
IsDeleted_MissingIsFalse(dst) ==
  LET col_idx == first_is_deleted_virtual_column_idx IN
  IF col_idx = kColumnNotFound
  THEN [status |-> StatusOK, val |-> <<0>>]
  ELSE Get("is_deleted", col_idx, dst)

\* Status IsDeleted(bool* val)
IsDeleted(dst) ==
  LET col_idx == first_is_deleted_virtual_column_idx IN
  IF col_idx = kColumnNotFound
  THEN [status |-> NotFound(<<"IS_DELETED virtual column not found">>),
        val |-> dst]
  ELSE Get("is_deleted", col_idx, dst)

\* The conversion made through an unsigned type: no sign extension.
Widen_ZeroExtend(b) == b \o Repeat(0, SizeOf("int128") - Len(b))

\* *val = i32_val, *val = i64_val, *val = i128_val: the conversion of a
\* signed integer to int128_t, on the bytes of its representation.
Widen(b) ==
  b \o Repeat(IF b[Len(b)] >= 128 THEN 255 ELSE 0, SizeOf("int128") - Len(b))

\* Status GetUnscaledDecimal(int col_idx, int128_t* val).  The local the
\* value is read into starts uninitialized (no bytes known).
GetUnscaledDecimal(col_idx, dst) ==
  LET col == column(col_idx) IN
  IF col.type \in {"decimal32", "decimal64", "decimal128"}
  THEN LET g == Get(col.type, col_idx, <<>>) IN
       IF g.status.code # "OK" THEN [status |-> g.status, val |-> dst]
       ELSE [status |-> StatusOK, val |-> Widen(g.val)]
  ELSE [status |-> InvalidArgument(
                     <<"invalid type $0 provided for column '$1' (expected decimal)",
                       col.type, col.name>>),
        val |-> dst]

\* Status GetUnscaledDecimal(const Slice& col_name, int128_t* val)
GetUnscaledDecimalByName(col_name, dst) ==
  LET f == FindColumn(col_name) IN
  IF f.status.code # "OK" THEN [status |-> f.status, val |-> dst]
  ELSE GetUnscaledDecimal(f.col_idx, dst)

-----------------------------------------------------------------------------
(* Rendering *)

\* A piece of literal text of a rendered string.
Lit(text) ==
  [kind |-> "lit", text |-> text, col |-> "", is_null |-> FALSE, bytes |-> <<>>]

\* A RowCell that reports no column as null.
RowCell_NeverNull(col_idx) ==
  [is_null |-> FALSE,
   ptr |-> memcpy(row_data + column_offset(col_idx),
                  SizeOf(column(col_idx).type))]

\* RowCell: what the schema's formatter is given for column i, the null
\* state (RowCell::is_null) and the cell's bytes (RowCell::ptr).
RowCell(col_idx) ==
  [is_null |-> IsNull(col_idx),
   ptr |-> memcpy(cell(col_idx), SizeOf(column(col_idx).type))]

\* ColumnSchema::DebugCellAppend(cell, &ret): the field of a column, its
\* type and name, then NULL or the value.
DebugCellAppend(col, c, str) ==
  Append(str, [kind |-> "cell", text |-> col.type, col |-> col.name,
               is_null |-> col.is_nullable /\ c.is_null,
               bytes |-> IF col.is_nullable /\ c.is_null THEN <<>> ELSE c.ptr])

\* ColumnSchema::DebugCSVCellAppend(cell, &ret): the CSV field of a column,
\* quoted and escaped for the string types.
DebugCSVCellAppend(col, c, str) ==
  Append(str, [kind |-> IF col.type \in {"string", "binary", "varchar"}
                        THEN "csv-quoted" ELSE "csv-plain",
               text |-> col.type, col |-> "",
               is_null |-> col.is_nullable /\ c.is_null,
               bytes |-> IF col.is_nullable /\ c.is_null THEN <<>> ELSE c.ptr])

RECURSIVE ToStringLoop(_, _)
\* The loop of ToString from column i on, str being what is built so far.
ToStringLoop(i, str) ==
  IF i >= num_columns THEN str
  ELSE ToStringLoop(i + 1,
         DebugCellAppend(column(i), RowCell(i),
                         IF i # 0 THEN Append(str, Lit(", ")) ELSE str))

\* string ToString()
ToString == Append(ToStringLoop(0, <<Lit("(")>>), Lit(")"))

\* ToCSVRowString without ret.clear(): the buffer is appended to.
clear_Missing(str) == str

\* std::string::clear()
clear(str) == SubSeq(str, 1, 0)

RECURSIVE CSVLoop(_, _)
\* The loop of ToCSVRowString from column i on.
CSVLoop(i, str) ==
  IF i >= num_columns THEN str
  ELSE CSVLoop(i + 1,
         DebugCSVCellAppend(column(i), RowCell(i),
                            IF i # 0 THEN Append(str, Lit(",")) ELSE str))

\* string* ToCSVRowString(std::string& ret): buf is ret before the call,
\* the result is ret after it.
ToCSVRowString(buf) == CSVLoop(0, clear(buf))

-----------------------------------------------------------------------------
(* The calls a client makes on a row of the batch *)

\* The record of a call: the operation, the getter's type T, the column
\* index it was given or resolved (kColumnNotFound when there is none), the
\* name it was given ("" when called by index), the destination's content
\* before the call, the Status returned, and the returned bool, pointer or
\* string of the operations that return one.
Call(op, T, col_idx, col_name, dst, status, b, ptr, str) ==
  [op |-> op, T |-> T, col_idx |-> col_idx, name |-> col_name, dst |-> dst,
   status |-> status, b |-> b, ptr |-> ptr, str |-> str]

\* No call is in progress: the client is between two calls.
NoCall == Call("none", "", kColumnNotFound, "", <<>>, StatusOK, FALSE, 0, <<>>)

Idle == ~aborted /\ last.op = "none"

\* The column names a caller asks for: the schema's, and one it lacks.
CallNames == {column(i).name : i \in 0..(num_columns - 1)} \cup {NoSuchName}

ColIdxs == 0..(num_columns - 1)

\* What a destination of n bytes may hold before a call.
Dsts(n) == {Repeat(170, n), Repeat(85, n)}

Init ==
  /\ schema \in Schemas
  /\ direct_data = BatchOf(schema)
  /\ row_data = 0
  /\ val = <<>>
  /\ ret \in {<<>>, <<Lit("stale")>>}
  /\ last = NoCall
  /\ aborted = FALSE

\* KuduScanBatch::Row(idx): the row view of row idx of the batch.
Row(idx) ==
  /\ Idle
  /\ row_data' = idx * RowStride(schema)
  /\ UNCHANGED <<schema, direct_data, val, ret, last, aborted>>

\* The call has returned and the client has looked at its result.
Return ==
  /\ ~aborted
  /\ last.op # "none"
  /\ last' = NoCall
  /\ val' = <<>>
  /\ UNCHANGED <<schema, direct_data, row_data, ret, aborted>>

\* GetBool(int, ...), GetInt8(int, ...), ...: Get<TypeTraits<T> >(col_idx, val)
DoGet(T, col_idx, dst) ==
  /\ Idle
  /\ LET g == Get(T, col_idx, dst) IN
     /\ val' = g.val
     /\ last' = Call("Get", T, col_idx, "", dst, g.status, FALSE, 0, <<>>)
  /\ UNCHANGED <<schema, direct_data, row_data, ret, aborted>>

\* GetBool(const Slice&, ...), ...: Get<TypeTraits<T> >(col_name, val)
DoGetByName(T, col_name, dst) ==
  /\ Idle
  /\ LET g == GetByName(T, col_name, dst) IN
     /\ val' = g.val
     /\ last' = Call("GetByName", T, FindColumn(col_name).col_idx, col_name,
                     dst, g.status, FALSE, 0, <<>>)
  /\ UNCHANGED <<schema, direct_data, row_data, ret, aborted>>

DoIsNull(col_idx) ==
  /\ Idle
  /\ last' = Call("IsNull", "", col_idx, "", <<>>, StatusOK, IsNull(col_idx),
                  0, <<>>)
  /\ UNCHANGED <<schema, direct_data, row_data, val, ret, aborted>>

\* bool IsNull(const Slice& col_name): CHECK_OK(FindColumn(...)) ends the
\* process when the name is not a column of the schema.
DoIsNullByName(col_name) ==
  /\ Idle
  /\ LET f == FindColumn(col_name) IN
     IF f.status.code # "OK"
     THEN /\ aborted' = TRUE
          /\ last' = Call("IsNullByName", "", f.col_idx, col_name, <<>>,
                          f.status, FALSE, 0, <<>>)
     ELSE /\ aborted' = aborted
          /\ last' = Call("IsNullByName", "", f.col_idx, col_name, <<>>,
                          StatusOK, IsNull(f.col_idx), 0, <<>>)
  /\ UNCHANGED <<schema, direct_data, row_data, val, ret>>

DoIsDeleted(dst) ==
  /\ Idle
  /\ LET g == IsDeleted(dst) IN
     /\ val' = g.val
     /\ last' = Call("IsDeleted", "is_deleted",
                     first_is_deleted_virtual_column_idx, "", dst, g.status,
                     FALSE, 0, <<>>)
  /\ UNCHANGED <<schema, direct_data, row_data, ret, aborted>>

DoGetUnscaledDecimal(col_idx, dst) ==
  /\ Idle
  /\ LET g == GetUnscaledDecimal(col_idx, dst) IN
     /\ val' = g.val
     /\ last' = Call("GetUnscaledDecimal", "", col_idx, "", dst, g.status,
                     FALSE, 0, <<>>)
  /\ UNCHANGED <<schema, direct_data, row_data, ret, aborted>>

DoGetUnscaledDecimalByName(col_name, dst) ==
  /\ Idle
  /\ LET g == GetUnscaledDecimalByName(col_name, dst) IN
     /\ val' = g.val
     /\ last' = Call("GetUnscaledDecimalByName", "",
                     FindColumn(col_name).col_idx, col_name, dst, g.status,
                     FALSE, 0, <<>>)
  /\ UNCHANGED <<schema, direct_data, row_data, ret, aborted>>

DoCell(col_idx) ==
  /\ Idle
  /\ last' = Call("cell", "", col_idx, "", <<>>, StatusOK, FALSE,
                  cell(col_idx), <<>>)
  /\ UNCHANGED <<schema, direct_data, row_data, val, ret, aborted>>

DoToString ==
  /\ Idle
  /\ last' = Call("ToString", "", kColumnNotFound, "", <<>>, StatusOK, FALSE,
                  0, ToString)
  /\ UNCHANGED <<schema, direct_data, row_data, val, ret, aborted>>

\* ToCSVRowString(ret): the record keeps the buffer's content before the
\* call in dst.
DoToCSVRowString ==
  /\ Idle
  /\ ret' = ToCSVRowString(ret)
  /\ last' = Call("ToCSVRowString", "", kColumnNotFound, "", ret, StatusOK,
                  FALSE, 0, <<>>)
  /\ UNCHANGED <<schema, direct_data, row_data, val, aborted>>

\* Field access: the getters and predicates on the rows of a batch.
Next ==
  \/ \E idx \in 0..(NumRowsOf(schema) - 1) : Row(idx)
  \/ Return
  \/ \E T \in TypesByIdx, i \in ColIdxs : \E dst \in Dsts(SizeOf(T)) :
        DoGet(T, i, dst)
  \/ \E T \in TypesByName, n \in CallNames : \E dst \in Dsts(SizeOf(T)) :
        DoGetByName(T, n, dst)
  \/ \E i \in ColIdxs : DoIsNull(i)
  \/ \E n \in CallNames : DoIsNullByName(n)
  \/ \E dst \in Dsts(SizeOf("bool")) : DoIsDeleted(dst)
  \/ \E i \in ColIdxs, dst \in Dsts(SizeOf("int128")) :
        DoGetUnscaledDecimal(i, dst)
  \/ \E n \in CallNames, dst \in Dsts(SizeOf("int128")) :
        DoGetUnscaledDecimalByName(n, dst)
  \/ \E i \in ColIdxs : DoCell(i)

Spec == Init /\ [][Next]_vars

\* Rendering: the two renderers on the rows of a batch.
NextRender ==
  \/ \E idx \in 0..(NumRowsOf(schema) - 1) : Row(idx)
  \/ Return
  \/ DoToString
  \/ DoToCSVRowString

SpecRender == Init /\ [][NextRender]_vars

-----------------------------------------------------------------------------
(* What the properties are stated in: the row as the layout describes it *)

\* The call in progress was given, or resolved its name to, a column.
HasCol == last.col_idx # kColumnNotFound

LastCol == column(last.col_idx)

\* Bit i of the bitmap that follows the fixed-width region of the row.
NullBitSet(i) ==
  LET byte == direct_data[row_data + byte_size + (i \div 8) + 1]
  IN (byte \div Pow2(i % 8)) % 2 = 1

\* The number of nullable columns declared before column i.
NullableRank(i) == Cardinality({j \in 0..(i - 1) : column(j).is_nullable})

\* The bytes stored at row_pointer + byte_offset of column i.
StoredBytes(i) ==
  [j \in 1..SizeOf(column(i).type) |-> direct_data[row_data + column_offset(i) + j]]

\* The value of column i is null in the row.
StoredNull(i) == column(i).is_nullable /\ NullBitSet(i)

TypedGetters == {"Get", "GetByName"}

DecimalGetters == {"GetUnscaledDecimal", "GetUnscaledDecimalByName"}

DecimalTypes == {"decimal32", "decimal64", "decimal128"}

IsValueIsNull(st) == st = NotFound(<<"column is NULL">>)

-----------------------------------------------------------------------------
(* Typed getters *)

\* C1: a typed getter (by index or by name) whose type differs from the
\* column's declared type returns the type-mismatch status, which names the
\* requested type, the column and the column's real type, and leaves the
\* destination as it was; this whether or not the column's null bit is set.
C1_TypeMismatch ==
  (last.op \in TypedGetters /\ HasCol /\ LastCol.type # last.T) =>
    /\ last.status.code = "InvalidArgument"
    /\ Len(last.status.msg) = 4
    /\ last.status.msg[2] = last.T
    /\ last.status.msg[3] = LastCol.name
    /\ last.status.msg[4] = LastCol.type
    /\ ~IsValueIsNull(last.status)
    /\ val = last.dst

\* An INT32 getter on a DATE column (same width) whose null bit is set.
C1_Witness ==
  /\ last.op \in TypedGetters /\ HasCol
  /\ last.T = "int32" /\ LastCol.type = "date"
  /\ StoredNull(last.col_idx)
  /\ last.status.code = "InvalidArgument"

\* C2: a typed getter of the column's own type returns ValueIsNull and
\* leaves the destination as it was when the column is nullable and its
\* null bit is set, and otherwise succeeds with the bytes stored at the
\* column's offset; for a non-nullable column it always succeeds.
C2_NullOrValue ==
  (last.op \in TypedGetters /\ HasCol /\ LastCol.type = last.T) =>
    IF StoredNull(last.col_idx)
    THEN IsValueIsNull(last.status) /\ val = last.dst
    ELSE last.status = StatusOK /\ val = StoredBytes(last.col_idx)

\* A getter by name of the right type on a nullable column that is null.
C2_Witness ==
  /\ last.op = "GetByName" /\ HasCol /\ LastCol.type = last.T
  /\ StoredNull(last.col_idx)
  /\ IsValueIsNull(last.status) /\ val = last.dst

\* C3: every operation by name, given a name the schema lacks, returns a
\* not-found status to its caller, with the process alive and the
\* destination as it was.
C3_NoLookupIsFatal ==
  (last.op \in {"GetByName", "GetUnscaledDecimalByName", "IsNullByName"}
     /\ ~HasCol) =>
    /\ ~aborted
    /\ last.status.code = "NotFound"
    /\ val = last.dst

-----------------------------------------------------------------------------
(* Decimals, the deleted-row predicate, the null predicate *)

\* C4: GetUnscaledDecimal (by index or by name) on a decimal column that is
\* not null succeeds with the 16-byte two's complement encoding of the
\* signed integer the 4, 8 or 16 bytes stored in the column denote; on a column of another type
\* it fails with InvalidArgument, and on a null decimal column with
\* ValueIsNull, the destination being left as it was in both cases.
C4_UnscaledDecimal ==
  (last.op \in DecimalGetters /\ HasCol) =>
    IF LastCol.type \notin DecimalTypes
    THEN last.status.code = "InvalidArgument" /\ val = last.dst
    ELSE IF StoredNull(last.col_idx)
    THEN IsValueIsNull(last.status) /\ val = last.dst
    ELSE /\ last.status = StatusOK
         /\ val = Encode(DecodeSigned(StoredBytes(last.col_idx)),
                        SizeOf("int128"))

\* A negative value widened from a DECIMAL32 column.
C4_Witness ==
  /\ last.op \in DecimalGetters /\ HasCol
  /\ LastCol.type = "decimal32"
  /\ last.status = StatusOK
  /\ DecodeSigned(StoredBytes(last.col_idx)) < 0
  /\ Len(val) = SizeOf("int128")
  /\ val[Len(val)] = 255

\* C5: IsDeleted on a schema without a deleted-row virtual column returns a
\* not-found status, the process alive and the destination as it was; with
\* such a column it returns what the typed getter of that column returns:
\* ValueIsNull when it is null, else its stored byte.
C5_IsDeleted ==
  (last.op = "IsDeleted") =>
    LET D == {i \in ColIdxs : column(i).type = "is_deleted"} IN
    IF D = {}
    THEN /\ last.status.code = "NotFound"
         /\ ~IsValueIsNull(last.status)
         /\ ~aborted
         /\ val = last.dst
    ELSE LET i == CHOOSE i \in D : \A j \in D : i <= j IN
         IF StoredNull(i)
         THEN IsValueIsNull(last.status) /\ val = last.dst
         ELSE last.status = StatusOK /\ val = StoredBytes(i)

\* IsDeleted on a schema that has columns but no deleted-row column.
C5_Witness ==
  /\ last.op = "IsDeleted"
  /\ num_columns > 0
  /\ \A i \in ColIdxs : column(i).type # "is_deleted"
  /\ last.status.code = "NotFound"
  /\ val = last.dst

\* C6: IsNull of a column declared non-nullable is false whatever the
\* bitmap holds, for a column of any type, and the row's bytes are what
\* they were.
C6_NonNullableNeverNull ==
  (last.op \in {"IsNull", "IsNullByName"} /\ HasCol) =>
    /\ ~LastCol.is_nullable => last.b = FALSE
    /\ last.status = StatusOK
    /\ direct_data = BatchOf(schema)

\* IsNull of a non-nullable column whose bit is set in the bitmap.
C6_Witness ==
  /\ last.op = "IsNull"
  /\ ~LastCol.is_nullable
  /\ NullBitSet(last.col_idx)
  /\ last.b = FALSE

\* C9 as stated: the bit tested for a nullable column is the one whose
\* position is the number of nullable columns declared before it.
C9_BitPerNullableColumn ==
  /\ (last.op \in {"IsNull", "IsNullByName"} /\ HasCol /\ LastCol.is_nullable)
       => last.b = NullBitSet(NullableRank(last.col_idx))
  /\ (last.op \in TypedGetters /\ HasCol /\ LastCol.type = last.T
        /\ LastCol.is_nullable)
       => (IsValueIsNull(last.status) <=> NullBitSet(NullableRank(last.col_idx)))

\* C9, amended: the bitmap starts right after the fixed-width region and
\* the bit tested for a nullable column, by IsNull and by the getters' null
\* check, is the one whose position is the column's index in the schema.
C9_BitAtColumnIndex ==
  /\ (last.op \in {"IsNull", "IsNullByName"} /\ HasCol /\ LastCol.is_nullable)
       => last.b = NullBitSet(last.col_idx)
  /\ (last.op \in TypedGetters /\ HasCol /\ LastCol.type = last.T
        /\ LastCol.is_nullable)
       => (IsValueIsNull(last.status) <=> NullBitSet(last.col_idx))

\* IsNull of a nullable column that follows a non-nullable one, in a row
\* where the bit at its index and the bit at its rank differ.
C9_Witness ==
  /\ last.op = "IsNull" /\ LastCol.is_nullable
  /\ NullableRank(last.col_idx) # last.col_idx
  /\ NullBitSet(last.col_idx) # NullBitSet(NullableRank(last.col_idx))
  /\ last.b = NullBitSet(last.col_idx)

-----------------------------------------------------------------------------
(* Rendering *)

\* Token t is the field of column i as formatter kind k renders it: the
\* column's type, the null state IsNull reports, and the stored bytes when
\* it is not null.
IsFieldOf(t, i, kinds) ==
  /\ t.kind \in kinds
  /\ t.text = column(i).type
  /\ t.is_null = IsNull(i)
  /\ ~t.is_null => t.bytes = StoredBytes(i)

\* C7: the debug string of a row over N columns is "(", the N rendered
\* fields in schema column order separated by ", ", then ")" ("()" when
\* N = 0); field i carries column i's name and the null state IsNull(i)
\* reports, and there is a result for every pattern of nulls.
C7_DebugString ==
  (last.op = "ToString") =>
    LET str == last.str
        n == num_columns
    IN /\ Len(str) = (IF n = 0 THEN 2 ELSE 2 * n + 1)
       /\ str[1] = Lit("(")
       /\ str[Len(str)] = Lit(")")
       /\ \A i \in 0..(n - 1) :
            /\ IsFieldOf(str[2 * i + 2], i, {"cell"})
            /\ str[2 * i + 2].col = column(i).name
       /\ \A i \in 1..(n - 1) : str[2 * i + 1] = Lit(", ")

\* The row of the example: id not null and rendered, name null.
C7_Witness ==
  /\ last.op = "ToString"
  /\ num_columns = 2
  /\ ~last.str[2].is_null /\ last.str[2].col = "id"
  /\ last.str[4].is_null /\ last.str[4].col = "name"

\* C8: after ToCSVRowString the buffer holds only the row's N fields in
\* schema column order joined by ",", without parentheses, whatever it held
\* before the call; so a second call on the same row leaves it as it is.
C8_CSVRebuilt ==
  (last.op = "ToCSVRowString") =>
    LET n == num_columns
    IN /\ Len(ret) = (IF n = 0 THEN 0 ELSE 2 * n - 1)
       /\ \A i \in 0..(n - 1) :
            IsFieldOf(ret[2 * i + 1], i,
                      IF column(i).type \in {"string", "binary", "varchar"}
                      THEN {"csv-quoted"} ELSE {"csv-plain"})
       /\ \A i \in 1..(n - 1) : ret[2 * i] = Lit(",")

\* A call on a buffer that held the rendering of another row.
C8_Witness ==
  /\ last.op = "ToCSVRowString"
  /\ Len(last.dst) > 1
  /\ last.dst # ret
  /\ last.dst[2] = Lit(",")

-----------------------------------------------------------------------------
(* Error kinds *)

StatusOps == TypedGetters \cup DecimalGetters \cup {"IsDeleted"}

\* The failure condition of a call, from what it was asked and the row:
\* the four conditions of the error design, or "none".
CondOf(op, T, col_idx) ==
  IF col_idx = kColumnNotFound THEN "ColumnNotFound"
  ELSE IF op \in DecimalGetters /\ column(col_idx).type \notin DecimalTypes
  THEN "InvalidArgument"
  ELSE IF op \notin DecimalGetters /\ column(col_idx).type # T
  THEN "TypeMismatch"
  ELSE IF StoredNull(col_idx) THEN "ValueIsNull"
  ELSE "none"

\* The condition and the status code of every call a client can make on
\* the current row.
Outcomes ==
  {[cond |-> CondOf("Get", T, i), code |-> Get(T, i, <<>>).status.code] :
     T \in TypesByIdx, i \in ColIdxs}
  \cup
  {[cond |-> CondOf("GetByName", T, FindColumn(n).col_idx),
    code |-> GetByName(T, n, <<>>).status.code] :
     T \in TypesByName, n \in CallNames}
  \cup
  {[cond |-> CondOf("GetUnscaledDecimal", "", i),
    code |-> GetUnscaledDecimal(i, <<>>).status.code] : i \in ColIdxs}
  \cup
  {[cond |-> CondOf("IsDeleted", "is_deleted",
                    first_is_deleted_virtual_column_idx),
    code |-> IsDeleted(<<>>).status.code]}

\* C10 as stated: the error kind returned tells the four failure
\* conditions apart: no call on the row that fails for another condition
\* returns the kind the call in progress returned.
C10_KindsDistinct ==
  (last.op \in StatusOps /\ last.status.code # "OK") =>
    \A o \in Outcomes :
      (o.cond # "none" /\ o.cond # CondOf(last.op, last.T, last.col_idx))
        => o.code # last.status.code

\* C10, amended: the four conditions are reported with two status codes,
\* ColumnNotFound and ValueIsNull as NotFound, TypeMismatch and the decimal
\* accessor's InvalidArgument as InvalidArgument, and success as OK.
C10_TwoCodes ==
  (last.op \in StatusOps) =>
    LET c == CondOf(last.op, last.T, last.col_idx)
    IN last.status.code =
         (CASE c \in {"ColumnNotFound", "ValueIsNull"} -> "NotFound"
            [] c \in {"TypeMismatch", "InvalidArgument"} -> "InvalidArgument"
            [] OTHER -> "OK")

\* A getter by name on a present column that is null returns the code an
\* absent name returns.
C10_Witness ==
  /\ last.op = "GetByName" /\ HasCol
  /\ CondOf(last.op, last.T, last.col_idx) = "ValueIsNull"
  /\ last.status.code = GetByName(last.T, NoSuchName, last.dst).status.code

=============================================================================
